---- MODULE Spec2Model ----
(***************************************************************************)
(* A model of the parse-helper crate: ParseHelper<'a, T, B>, a scanning   *)
(* cursor over a borrowed byte or UTF-8 buffer, in its two boundary modes  *)
(* (Byte, Char), with marks, slicing, backups and the mode conversions.    *)
(*                                                                         *)
(* Bytes are integers 0..255, chars are Unicode scalar values, a buffer is *)
(* the sequence of its bytes (what `input.as_ref()` yields).  Offsets are  *)
(* 0-based as in the source; SubSeq is 1-based.                            *)
(***************************************************************************)
EXTENDS Integers, Sequences, FiniteSets, TLC

(***************************************************************************)
(* Bounds of the model.                                                    *)
(***************************************************************************)
\* longest textual buffer, in bytes
MaxLen == 4
\* longest str needle given to accept, in bytes
MaxNeedle == 3
\* most marks kept by the caller at a time
MaxMarks == 2

\* The chars buffers and needles are made of: one of each UTF-8 width,
\* two of them whitespace.  ' ', U+00E9, U+2003 (EM SPACE), U+1F600.
Chars == {32, 233, 8195, 128512}

(***************************************************************************)
(* UTF-8 and str, as core implements them.                                 *)
(***************************************************************************)
\* char::len_utf8
len_utf8(c) ==
    IF c < 128 THEN 1 ELSE IF c < 2048 THEN 2 ELSE IF c < 65536 THEN 3 ELSE 4

\* char::encode_utf8
encode_utf8(c) ==
    CASE len_utf8(c) = 1 -> <<c>>
      [] len_utf8(c) = 2 -> <<192 + (c \div 64), 128 + (c % 64)>>
      [] len_utf8(c) = 3 ->
            <<224 + (c \div 4096), 128 + ((c \div 64) % 64), 128 + (c % 64)>>
      [] OTHER ->
            <<240 + (c \div 262144), 128 + ((c \div 4096) % 64),
              128 + ((c \div 64) % 64), 128 + (c % 64)>>

\* str::as_bytes of the string made of the chars cs
RECURSIVE as_bytes(_)
as_bytes(cs) ==
    IF cs = <<>> THEN <<>> ELSE encode_utf8(Head(cs)) \o as_bytes(Tail(cs))

\* u8 as i8
as_i8(b) == IF b >= 128 THEN b - 256 ELSE b

\* str::is_char_boundary
is_char_boundary(s, index) ==
    IF index = 0 THEN TRUE
    ELSE IF index >= Len(s) THEN index = Len(s)
    ELSE as_i8(s[index + 1]) >= -64

\* str::chars().next() on a non-empty str s (core's next_code_point)
next_code_point(s) ==
    LET x == s[1]
        cont(i) == s[i] % 64
    IN  IF x < 128 THEN x
        ELSE IF x < 224 THEN (x % 32) * 64 + cont(2)
        ELSE IF x < 240 THEN (x % 32) * 4096 + cont(2) * 64 + cont(3)
        ELSE (x % 8) * 262144 + cont(2) * 4096 + cont(3) * 64 + cont(4)

\* char::is_whitespace: the code points with the White_Space property
is_whitespace(c) ==
    \/ c \in 9..13
    \/ c \in {32, 133, 160, 5760, 8232, 8233, 8239, 8287, 12288}
    \/ c \in 8192..8202

(***************************************************************************)
(* Buffers.                                                                *)
(***************************************************************************)
\* sequences over S of length at most n
SeqsUpTo(S, n) == UNION {[1..k -> S] : k \in 0..n}

\* T = str: every string over Chars of at most MaxLen bytes, as its bytes
TextInputs == {s \in {as_bytes(cs) : cs \in SeqsUpTo(Chars, MaxLen)} : Len(s) <= MaxLen}

\* T = [u8]: byte buffers that are not UTF-8
RawInputs == {<<>>, <<169>>, <<255, 32>>, <<195, 32, 128>>}

VARIABLES
    input,               \* ParseHelper::input, as its bytes
    textual,             \* TRUE: T is str (AsRef<str>); FALSE: T is [u8]
    byte_position,       \* ParseHelper::byte_position
    boundary_assumption, \* the type parameter B: "Byte", "Char"; "moved" once
                         \* the binding was consumed and nothing was returned
    backup,              \* the cursor kept by create_backup
    marks,               \* the marks taken from the cursor the caller holds
    last                 \* the last call: name, arguments, offset before, result

vars == <<input, textual, byte_position, boundary_assumption, backup, marks, last>>


(***************************************************************************)
(* Results.  A method applied at offset pos yields the new offset, what it *)
(* returned and the view (or unit) it returned with it:                    *)
(*   res = "Some" / "None"   an Option                                     *)
(*   res = "true" / "false"  a bool                                        *)
(*   res = "ok"              a plain value or ()                           *)
(*   res = "panic"           the call panicked (assert!, indexing)         *)
(*   res = "ub"              an unchecked access outside its contract      *)
(***************************************************************************)
R(pos, res, view) == [pos |-> pos, res |-> res, view |-> view]

Failed(r) == r.res \in {"panic", "ub"}

\* Index<Range<usize>> for [u8]: &s[a..b]
slice_index(s, a, b) ==
    IF a <= b /\ b <= Len(s)
    THEN [res |-> "ok", view |-> SubSeq(s, a + 1, b)]
    ELSE [res |-> "panic", view |-> <<>>]

\* Index<Range<usize>> for str: &s[a..b]
str_index(s, a, b) ==
    IF a <= b /\ is_char_boundary(s, a) /\ is_char_boundary(s, b)
    THEN [res |-> "ok", view |-> SubSeq(s, a + 1, b)]
    ELSE [res |-> "panic", view |-> <<>>]

\* <[u8]>::get_unchecked(a..b)
slice_get_unchecked(s, a, b) ==
    IF a <= b /\ b <= Len(s)
    THEN [res |-> "ok", view |-> SubSeq(s, a + 1, b)]
    ELSE [res |-> "ub", view |-> <<>>]

\* str::get_unchecked(a..b)
str_get_unchecked(s, a, b) ==
    IF a <= b /\ b <= Len(s) /\ is_char_boundary(s, a) /\ is_char_boundary(s, b)
    THEN [res |-> "ok", view |-> SubSeq(s, a + 1, b)]
    ELSE [res |-> "ub", view |-> <<>>]

(***************************************************************************)
(* The closures given to the *_with methods, as descriptors.               *)
(***************************************************************************)
Always == [kind |-> "always", c |-> 0]
Never == [kind |-> "never", c |-> 0]
IsWhitespace == [kind |-> "is_whitespace", c |-> 0]
NotWhitespace == [kind |-> "not_whitespace", c |-> 0]
Eq(c) == [kind |-> "eq", c |-> c]
NoPred == [kind |-> "none", c |-> 0]

\* f(x)
Call(f, x) ==
    CASE f.kind = "always" -> TRUE
      [] f.kind = "never" -> FALSE
      [] f.kind = "is_whitespace" -> is_whitespace(x)
      [] f.kind = "not_whitespace" -> ~is_whitespace(x)
      [] f.kind = "eq" -> x = f.c
      [] OTHER -> FALSE

(***************************************************************************)
(* any.rs: methods of every ParseHelper                                    *)
(***************************************************************************)
\* the subtraction is a usize one: it is only meaningful while
\* byte_position <= len, which PositionInBounds establishes
bytes_left(pos) == Len(input) - pos

bytes_accepted(pos) == pos

done(pos) == bytes_left(pos) = 0

\* upcoming_byte testing `byte_position + 1` against the length: the last byte
\* of the buffer is not seen
upcoming_byte_short(pos) == IF pos + 1 < Len(input) THEN <<input[pos + 1]>> ELSE <<>>

\* Option<u8> as a sequence of at most one byte
upcoming_byte(pos) == IF pos < Len(input) THEN <<input[pos + 1]>> ELSE <<>>

(***************************************************************************)
(* byte.rs: methods of ParseHelper<T, Byte>                                *)
(***************************************************************************)
\* skip_bytes without its assert!
skip_bytes_unchecked(pos, n) == R(pos + n, "ok", <<>>)

\* skip_bytes stopping at the end of the buffer instead of panicking
skip_bytes_clamped(pos, n) ==
    IF n <= bytes_left(pos) THEN R(pos + n, "ok", <<>>) ELSE R(Len(input), "ok", <<>>)

skip_bytes(pos, n) ==
    IF n <= bytes_left(pos) THEN R(pos + n, "ok", <<>>) ELSE R(pos, "panic", <<>>)

skip_byte(pos) == skip_bytes(pos, 1)

\* is_at_utf8_boundary taking only ASCII bytes for the start of a codepoint
is_at_utf8_boundary_ascii(pos) ==
    IF pos = 0 THEN TRUE
    ELSE IF pos >= Len(input) THEN pos = Len(input)
    ELSE input[pos + 1] < 128

is_at_utf8_boundary(pos) == is_char_boundary(input, pos)

\* skip_to_next_utf8_char_boundary with `if` for `while`
skip_to_next_utf8_char_boundary_once(pos) ==
    IF is_at_utf8_boundary(pos) THEN R(pos, "ok", <<>>) ELSE skip_byte(pos)

RECURSIVE skip_to_next_utf8_char_boundary(_)
skip_to_next_utf8_char_boundary(pos) ==
    IF is_at_utf8_boundary(pos) THEN R(pos, "ok", <<>>)
    ELSE LET r == skip_byte(pos)
         IN  IF Failed(r) THEN r ELSE skip_to_next_utf8_char_boundary(r.pos)

byte_leftover(pos) ==
    LET v == slice_index(input, pos, Len(input)) IN R(pos, v.res, v.view)

\* accept advancing before it compares
byte_accept_eager(pos, bytes) ==
    IF Len(bytes) > bytes_left(pos) THEN R(pos, "None", <<>>)
    ELSE LET equivalent_input == slice_index(input, pos, pos + Len(bytes))
         IN  IF equivalent_input.res = "panic" THEN R(pos, "panic", <<>>)
             ELSE IF bytes = equivalent_input.view
                  THEN R(pos + Len(bytes), "Some", equivalent_input.view)
                  ELSE R(pos + Len(bytes), "None", <<>>)

\* accept with `>=` for `>` in its length test: a needle as long as what is
\* left is refused
byte_accept_short(pos, bytes) ==
    IF Len(bytes) >= bytes_left(pos) THEN R(pos, "None", <<>>)
    ELSE LET equivalent_input == slice_index(input, pos, pos + Len(bytes))
         IN  IF equivalent_input.res = "panic" THEN R(pos, "panic", <<>>)
             ELSE IF bytes = equivalent_input.view
                  THEN R(pos + Len(bytes), "Some", equivalent_input.view)
                  ELSE R(pos, "None", <<>>)

byte_accept(pos, bytes) ==
    IF Len(bytes) > bytes_left(pos) THEN R(pos, "None", <<>>)
    ELSE LET equivalent_input == slice_index(input, pos, pos + Len(bytes))
         IN  IF equivalent_input.res = "panic" THEN R(pos, "panic", <<>>)
             ELSE IF bytes = equivalent_input.view
                  THEN R(pos + Len(bytes), "Some", equivalent_input.view)
                  ELSE R(pos, "None", <<>>)

\* the loop of accept_until_byte_with advancing before it tests the byte: it
\* stops after the matching byte
RECURSIVE until_byte_end_inclusive(_, _)
until_byte_end_inclusive(pos, f) ==
    LET next_byte == upcoming_byte(pos)
    IN  IF next_byte = <<>> THEN pos
        ELSE IF Call(f, next_byte[1]) THEN pos + 1
        ELSE until_byte_end_inclusive(pos + 1, f)

\* the while-let loop of accept_until_byte_with: where it stops
RECURSIVE until_byte_end(_, _)
until_byte_end(pos, f) ==
    LET next_byte == upcoming_byte(pos)
    IN  IF next_byte = <<>> THEN pos
        ELSE IF Call(f, next_byte[1]) THEN pos
        ELSE until_byte_end(pos + 1, f)

accept_until_byte_with(pos, f) ==
    LET start == pos
        end == until_byte_end(pos, f)
        v == slice_get_unchecked(input, start, end)
    IN  R(end, v.res, v.view)

accept_until_byte(pos, c) == accept_until_byte_with(pos, Eq(c))

\* accept_byte_with without its `if f(b)`: any upcoming byte is accepted
accept_byte_with_any(pos, f) ==
    LET b == upcoming_byte(pos)
    IN  IF b = <<>> THEN R(pos, "None", <<>>)
        ELSE LET r == skip_byte(pos)
             IN  IF Failed(r) THEN r ELSE R(r.pos, "Some", b)

accept_byte_with(pos, f) ==
    LET b == upcoming_byte(pos)
    IN  IF b = <<>> THEN R(pos, "None", <<>>)
        ELSE IF Call(f, b[1])
             THEN LET r == skip_byte(pos)
                  IN  IF Failed(r) THEN r ELSE R(r.pos, "Some", b)
             ELSE R(pos, "None", <<>>)

accept_byte(pos, c) ==
    LET r == accept_byte_with(pos, Eq(c))
    IN  IF Failed(r) THEN r
        ELSE R(r.pos, IF r.res = "Some" THEN "true" ELSE "false", <<>>)

(***************************************************************************)
(* string.rs: methods of ParseHelper<T, Char>                              *)
(***************************************************************************)
char_leftover(pos) ==
    LET v == str_index(input, pos, Len(input)) IN R(pos, v.res, v.view)

\* Option<char>: res "Some" with the char in c, "None", or "panic"
upcoming_char(pos) ==
    LET l == char_leftover(pos)
    IN  IF Failed(l) THEN [res |-> "panic", c |-> 0]
        ELSE IF l.view = <<>> THEN [res |-> "None", c |-> 0]
        ELSE [res |-> "Some", c |-> next_code_point(l.view)]

\* str is the needle as its chars
char_accept(pos, str) == byte_accept(pos, as_bytes(str))

\* accept_char_with advancing by one byte instead of len_utf8()
accept_char_with_one_byte(pos, f) ==
    LET next_char == upcoming_char(pos)
    IN  IF next_char.res = "panic" THEN R(pos, "panic", <<>>)
        ELSE IF next_char.res = "None" THEN R(pos, "None", <<>>)
        ELSE IF Call(f, next_char.c)
             THEN LET old_pos == pos
                      new_pos == pos + 1
                      v == str_get_unchecked(input, old_pos, new_pos)
                  IN  R(new_pos, IF v.res = "ok" THEN "Some" ELSE v.res, v.view)
             ELSE R(pos, "None", <<>>)

accept_char_with(pos, f) ==
    LET next_char == upcoming_char(pos)
    IN  IF next_char.res = "panic" THEN R(pos, "panic", <<>>)
        ELSE IF next_char.res = "None" THEN R(pos, "None", <<>>)
        ELSE IF Call(f, next_char.c)
             THEN LET old_pos == pos
                      new_pos == pos + len_utf8(next_char.c)
                      v == str_get_unchecked(input, old_pos, new_pos)
                  IN  R(new_pos, IF v.res = "ok" THEN "Some" ELSE v.res, v.view)
             ELSE R(pos, "None", <<>>)

\* the while-let loop of accept_until_char_with: where it stops, or -1 when
\* upcoming_char panics
RECURSIVE until_char_end(_, _)
until_char_end(pos, f) ==
    LET next_char == upcoming_char(pos)
    IN  IF next_char.res = "panic" THEN -1
        ELSE IF next_char.res = "None" THEN pos
        ELSE IF Call(f, next_char.c) THEN pos
        ELSE until_char_end(pos + len_utf8(next_char.c), f)

\* accept_until_char_with taking `end` before its loop
accept_until_char_with_early_end(pos, f) ==
    LET start == pos
        end == until_char_end(pos, f)
        v == str_get_unchecked(input, start, start)
    IN  IF end = -1 THEN R(pos, "panic", <<>>) ELSE R(end, v.res, v.view)

accept_until_char_with(pos, f) ==
    LET start == pos
        end == until_char_end(pos, f)
        v == str_get_unchecked(input, start, end)
    IN  IF end = -1 THEN R(pos, "panic", <<>>) ELSE R(end, v.res, v.view)

accept_char(pos, c) == accept_char_with(pos, Eq(c))

accept_until_char(pos, c) == accept_until_char_with(pos, Eq(c))

accept_until_whitespace(pos) == accept_until_char_with(pos, IsWhitespace)

accept_whitespace(pos) == accept_char_with(pos, IsWhitespace)

accept_zero_or_more_whitespace(pos) == accept_until_char_with(pos, NotWhitespace)

\* accept_one_or_more_whitespace taking one whitespace char, as accept_whitespace
accept_one_or_more_whitespace_single(pos) ==
    LET next_char == upcoming_char(pos)
    IN  IF next_char.res = "panic" THEN R(pos, "panic", <<>>)
        ELSE IF next_char.res = "None" THEN R(pos, "None", <<>>)
        ELSE IF ~is_whitespace(next_char.c) THEN R(pos, "None", <<>>)
        ELSE accept_char_with(pos, IsWhitespace)

accept_one_or_more_whitespace(pos) ==
    LET next_char == upcoming_char(pos)
    IN  IF next_char.res = "panic" THEN R(pos, "panic", <<>>)
        ELSE IF next_char.res = "None" THEN R(pos, "None", <<>>)
        ELSE IF ~is_whitespace(next_char.c) THEN R(pos, "None", <<>>)
        ELSE LET r == accept_until_char_with(pos, NotWhitespace)
             IN  R(r.pos, IF r.res = "ok" THEN "Some" ELSE r.res, r.view)


(***************************************************************************)
(* Arguments the calls are made with.                                      *)
(***************************************************************************)
\* bytes given to accept_byte, accept_until_byte and as needles
ByteArgs == {32, 169}

CharPreds == {Always, Never, IsWhitespace, NotWhitespace, Eq(233)}

BytePreds == {Always, Never} \cup {Eq(b) : b \in ByteArgs}

\* needles of Char::accept (impl AsRef<str>), as their chars
CharNeedles == {cs \in SeqsUpTo(Chars, MaxNeedle) : Len(as_bytes(cs)) <= MaxNeedle}

\* needles of Byte::accept (impl AsRef<[u8]>): strs, and byte strings that
\* are not UTF-8
ByteNeedles == {as_bytes(cs) : cs \in CharNeedles} \cup {<<195>>, <<169>>, <<32, 195>>}

\* a call made inside a closure
Op(op, f, needle) == [op |-> op, f |-> f, needle |-> needle]

\* a closure: the calls it makes in order, whether it applies `?` to each
\* Option it gets, and the value it returns when it reaches its end
Closure(body, try, ret) == [body |-> body, try |-> try, ret |-> ret]

\* the closures given to slice_accepted and slice_accepted_option
Closures(B) ==
    IF B = "Byte"
    THEN {\* |ph| Some(())   and   |ph| None
          Closure(<<>>, FALSE, "Some"), Closure(<<>>, FALSE, "None"),
          \* |ph| { ph.skip_byte(); Some(()) }
          Closure(<<Op("skip_byte", NoPred, <<>>)>>, FALSE, "Some"),
          \* |ph| { ph.accept_byte_with(|_| true)?; ph.accept_until_byte(b' '); Some(()) }
          Closure(<<Op("accept_byte_with", Always, <<>>),
                    Op("accept_until_byte_with", Eq(32), <<>>)>>, TRUE, "Some"),
          \* |ph| { ph.accept_until_byte(b' '); ph.accept([0xc3])?; None }
          Closure(<<Op("accept_until_byte_with", Eq(32), <<>>),
                    Op("accept", NoPred, <<195>>)>>, TRUE, "None"),
          \* |ph| { ph.restore_backup(b.clone()); Some(()) }
          Closure(<<Op("restore_backup", NoPred, <<>>)>>, FALSE, "Some"),
          \* |ph| { ph.accept_byte_with(|_| true); ph.restore_backup(b.clone()); None }
          Closure(<<Op("accept_byte_with", Always, <<>>),
                    Op("restore_backup", NoPred, <<>>)>>, FALSE, "None")}
    ELSE {\* |ph| Some(())   and   |ph| None
          Closure(<<>>, FALSE, "Some"), Closure(<<>>, FALSE, "None"),
          \* |ph| { ph.accept_whitespace()?; ph.accept_until_whitespace(); Some(()) }
          Closure(<<Op("accept_char_with", IsWhitespace, <<>>),
                    Op("accept_until_char_with", IsWhitespace, <<>>)>>, TRUE, "Some"),
          \* |ph| { ph.accept_until_whitespace(); ph.accept_one_or_more_whitespace(); None }
          Closure(<<Op("accept_until_char_with", IsWhitespace, <<>>),
                    Op("accept_one_or_more_whitespace", NoPred, <<>>)>>, FALSE, "None"),
          \* |ph| { ph.accept_char_with(|_| true)?; ph.accept("\u{e9}")?; Some(()) }
          Closure(<<Op("accept_char_with", Always, <<>>),
                    Op("accept", NoPred, <<233>>)>>, TRUE, "Some"),
          \* |ph| { ph.restore_backup(b.clone()); Some(()) }
          Closure(<<Op("restore_backup", NoPred, <<>>)>>, FALSE, "Some"),
          \* |ph| { ph.accept_char_with(|_| true); ph.restore_backup(b.clone()); None }
          Closure(<<Op("accept_char_with", Always, <<>>),
                    Op("restore_backup", NoPred, <<>>)>>, FALSE, "None")}

NoBackup == [boundary_assumption |-> "none", byte_position |-> 0]

\* no closure: the call takes none
NoClosure == Closure(<<>>, FALSE, "")

\* one call of a closure on the cursor, bk being the backup it captured
Exec(B, pos, bk, d) ==
    CASE d.op = "skip_byte" -> skip_byte(pos)
      [] d.op = "accept_byte_with" -> accept_byte_with(pos, d.f)
      [] d.op = "accept_until_byte_with" -> accept_until_byte_with(pos, d.f)
      [] d.op = "accept" /\ B = "Byte" -> byte_accept(pos, d.needle)
      [] d.op = "accept" /\ B = "Char" -> char_accept(pos, d.needle)
      [] d.op = "accept_char_with" -> accept_char_with(pos, d.f)
      [] d.op = "accept_until_char_with" -> accept_until_char_with(pos, d.f)
      [] d.op = "accept_one_or_more_whitespace" -> accept_one_or_more_whitespace(pos)
      [] d.op = "restore_backup" -> R(bk.byte_position, "ok", <<>>)
      [] OTHER -> R(pos, "ok", <<>>)

\* closure(self): the offset it leaves and what it returns ("panic"/"ub" when a
\* call inside it fails)
RECURSIVE run_body(_, _, _, _, _, _)
\* the closure after a call of it returned r, with the calls in rest to make
after_call(B, bk, rest, try, ret, r) ==
    IF Failed(r) THEN [pos |-> r.pos, res |-> r.res]
    ELSE IF try /\ r.res = "None" THEN [pos |-> r.pos, res |-> "None"]
    ELSE run_body(B, r.pos, bk, rest, try, ret)

run_body(B, pos, bk, body, try, ret) ==
    IF body = <<>> THEN [pos |-> pos, res |-> ret]
    ELSE after_call(B, bk, Tail(body), try, ret, Exec(B, pos, bk, Head(body)))

\* a closure that restores the backup needs one of the cursor's own type
WellTyped(B, bk, cl) ==
    (\E i \in 1..Len(cl.body) : cl.body[i].op = "restore_backup")
        => bk.boundary_assumption = B

(***************************************************************************)
(* any.rs: marks, slices, backups                                          *)
(***************************************************************************)
\* <T as Index<Range<usize>>>: T is str or [u8]
index_range(a, b) == IF textual THEN str_index(input, a, b) ELSE slice_index(input, a, b)

\* SliceRange for Range<Mark<B>>, through ParseHelper::slice
slice_range(start, end) == index_range(start, end)

\* the result of slice_accepted: offset left, closure result, span; f_res and
\* f_pos are what the closure returned and where it left the cursor
\* slice_accepted once closure(self) is over, c being what it returned and
\* where it left the cursor: `let end = self.mark(); (res, self.slice(start..end))`
slice_accepted_end(start, c) ==
    LET end == c.pos
        v == slice_range(start, end)
    IN  IF Failed(c)
        THEN [pos |-> c.pos, res |-> c.res, view |-> <<>>, f_res |-> c.res, f_pos |-> c.pos]
        ELSE IF v.res = "panic"
        THEN [pos |-> end, res |-> "panic", view |-> <<>>, f_res |-> c.res, f_pos |-> end]
        ELSE [pos |-> end, res |-> c.res, view |-> v.view, f_res |-> c.res, f_pos |-> end]

slice_accepted(B, pos, bk, cl) ==
    slice_accepted_end(pos, run_body(B, pos, bk, cl.body, cl.try, cl.ret))

\* ParseHelper::mark
mark(B, pos) == [boundary |-> B, byte_position |-> pos]

\* RangeShapes with the two inclusive impls generic in B like the other four
RangeShapes_generic(B) == {"a..b", "a..", "..", "..b", "..=b", "a..=b"}

\* the range shapes SliceRange is implemented for, for marks of type Mark<B>
RangeShapes(B) ==
    {"a..b", "a..", "..", "..b"} \cup (IF B = "Byte" THEN {"..=b", "a..=b"} ELSE {})

NoRange == [shape |-> "none", start |-> 0, end |-> 0]

\* the shapes that have a start mark, and those that have an end mark
WithStart == {"a..b", "a..", "a..=b"}

WithEnd == {"a..b", "..b", "..=b", "a..=b"}

\* a range of the given shape from mark a to mark b (an end it does not have is 0)
Range(shape, a, b) ==
    [shape |-> shape,
     start |-> IF shape \in WithStart THEN a.byte_position ELSE 0,
     end |-> IF shape \in WithEnd THEN b.byte_position ELSE 0]

\* slice with `..` read as `self.mark()..`: the full range taken from the offset
slice_full_from_offset(range) ==
    CASE range.shape = "a..b" -> slice_range(range.start, range.end)
      [] range.shape = "a.." -> index_range(range.start, Len(input))
      [] range.shape = ".." -> index_range(byte_position, Len(input))
      [] range.shape = "..b" -> index_range(0, range.end)
      [] range.shape = "..=b" -> index_range(0, range.end + 1)
      [] range.shape = "a..=b" -> index_range(range.start, range.end + 1)

\* ParseHelper::slice: range.slice(self.input), by the shape of the range; an
\* inclusive end e indexes as the exclusive end e + 1
slice(range) ==
    CASE range.shape = "a..b" -> slice_range(range.start, range.end)
      [] range.shape = "a.." -> index_range(range.start, Len(input))
      [] range.shape = ".." -> index_range(0, Len(input))
      [] range.shape = "..b" -> index_range(0, range.end)
      [] range.shape = "..=b" -> index_range(0, range.end + 1)
      [] range.shape = "a..=b" -> index_range(range.start, range.end + 1)

\* slice_accepted_option's `match accepted`, a being what slice_accepted returned
match_accepted(old, a) ==
    IF Failed(a) THEN a
    ELSE IF a.res = "Some" THEN a
    ELSE [a EXCEPT !.pos = old, !.res = "None", !.view = <<>>]

slice_accepted_option(B, pos, bk, cl) ==
    match_accepted(pos, slice_accepted(B, pos, bk, cl))


(***************************************************************************)
(* The state machine: one action per public method, applied to the cursor  *)
(* the caller holds.                                                       *)
(***************************************************************************)
\* the record of a call: its name and arguments (closure: the one given to
\* slice_accepted / slice_accepted_option), the cursor it was made on ("self":
\* the one the caller works with, "backup": the clone it keeps), that cursor's
\* type and offset when it was made, and its result r
Record(op, f, needle, n, r) ==
    [op |-> op, f |-> f, needle |-> needle, n |-> n,
     b |-> boundary_assumption, pre |-> byte_position,
     res |-> r.res, view |-> r.view, closure |-> NoClosure, f_res |-> "", f_pos |-> 0,
     range |-> NoRange, cursor |-> "self"]

\* Method with the offset shared between a cursor and its clone: the clone
\* follows the cursor
Method_shared(B, op, f, needle, n, result) ==
    /\ boundary_assumption = B
    /\ \E r \in {result} :
        /\ byte_position' = r.pos
        /\ last' = Record(op, f, needle, n, r)
        /\ backup' = IF backup.boundary_assumption = B
                     THEN [backup EXCEPT !.byte_position = r.pos] ELSE backup
    /\ UNCHANGED <<input, textual, boundary_assumption, marks>>

\* a method of ParseHelper<T, B> taking &mut self, with result r
Method(B, op, f, needle, n, result) ==
    /\ boundary_assumption = B
    /\ \E r \in {result} :
        /\ byte_position' = r.pos
        /\ last' = Record(op, f, needle, n, r)
    /\ UNCHANGED <<input, textual, boundary_assumption, backup, marks>>

Init ==
    /\ \/ input \in TextInputs /\ textual = TRUE /\ boundary_assumption \in {"Byte", "Char"}
       \/ input \in RawInputs /\ textual = FALSE /\ boundary_assumption = "Byte"
    /\ byte_position = 0
    /\ backup = NoBackup
    /\ marks = {}
    /\ last = [op |-> IF boundary_assumption = "Byte" THEN "new_byte_oriented"
                      ELSE "new_char_oriented",
               f |-> NoPred, needle |-> <<>>, n |-> 0, b |-> "none", pre |-> 0,
               res |-> "ok", view |-> <<>>, closure |-> NoClosure, f_res |-> "",
               f_pos |-> 0, range |-> NoRange, cursor |-> "self"]

\* new.rs: the caller rebinds its cursor to a fresh one over the same buffer.
\* A Mark<B> is used with the cursor it was taken from: a new cursor, and one a
\* conversion returns, start with no marks.
NewByteOriented ==
    /\ byte_position' = 0
    /\ boundary_assumption' = "Byte"
    /\ last' = Record("new_byte_oriented", NoPred, <<>>, 0, R(0, "ok", <<>>))
    /\ marks' = {}
    /\ UNCHANGED <<input, textual, backup>>

NewCharOriented ==
    /\ textual
    /\ byte_position' = 0
    /\ boundary_assumption' = "Char"
    /\ last' = Record("new_char_oriented", NoPred, <<>>, 0, R(0, "ok", <<>>))
    /\ marks' = {}
    /\ UNCHANGED <<input, textual, backup>>

\* byte.rs
SkipByte == Method("Byte", "skip_byte", NoPred, <<>>, 1, skip_byte(byte_position))

SkipBytes ==
    \E n \in 0..(Len(input) + 1) :
        Method("Byte", "skip_bytes", NoPred, <<>>, n, skip_bytes(byte_position, n))

SkipToNextUtf8CharBoundary ==
    /\ textual
    /\ Method("Byte", "skip_to_next_utf8_char_boundary", NoPred, <<>>, 0,
              skip_to_next_utf8_char_boundary(byte_position))

\* into_char_oriented with its test inverted (the `!` dropped)
IntoCharOriented_inverted ==
    /\ textual
    /\ boundary_assumption = "Byte"
    /\ IF is_at_utf8_boundary(byte_position)
       THEN /\ boundary_assumption' = "moved"
            /\ last' = Record("into_char_oriented", NoPred, <<>>, 0,
                              R(byte_position, "None", <<>>))
       ELSE /\ boundary_assumption' = "Char"
            /\ last' = Record("into_char_oriented", NoPred, <<>>, 0,
                              R(byte_position, "Some", <<>>))
    /\ marks' = {}
    /\ UNCHANGED <<input, textual, byte_position, backup>>

\* into_char_oriented(self): the Byte cursor is moved into the call; the caller
\* gets Some(Char cursor), or None and holds no cursor any more
IntoCharOriented ==
    /\ textual
    /\ boundary_assumption = "Byte"
    /\ IF ~is_at_utf8_boundary(byte_position)
       THEN /\ boundary_assumption' = "moved"
            /\ last' = Record("into_char_oriented", NoPred, <<>>, 0,
                              R(byte_position, "None", <<>>))
       ELSE /\ boundary_assumption' = "Char"
            /\ last' = Record("into_char_oriented", NoPred, <<>>, 0,
                              R(byte_position, "Some", <<>>))
    /\ marks' = {}
    /\ UNCHANGED <<input, textual, byte_position, backup>>

\* skip_into_char_oriented(mut self): skip, then into_char_oriented().unwrap_unchecked()
SkipIntoCharOriented ==
    /\ textual
    /\ boundary_assumption = "Byte"
    /\ LET r == skip_to_next_utf8_char_boundary(byte_position)
       IN  /\ byte_position' = r.pos
           /\ IF Failed(r)
              THEN /\ boundary_assumption' = "moved"
                   /\ last' = Record("skip_into_char_oriented", NoPred, <<>>, 0, r)
              ELSE IF ~is_at_utf8_boundary(r.pos)
              THEN /\ boundary_assumption' = "Char"
                   /\ last' = Record("skip_into_char_oriented", NoPred, <<>>, 0,
                                     R(r.pos, "ub", <<>>))
              ELSE /\ boundary_assumption' = "Char"
                   /\ last' = Record("skip_into_char_oriented", NoPred, <<>>, 0, r)
    /\ marks' = {}
    /\ UNCHANGED <<input, textual, backup>>

ByteAccept ==
    \E bytes \in ByteNeedles :
        Method("Byte", "accept", NoPred, bytes, 0, byte_accept(byte_position, bytes))

AcceptByte ==
    \E c \in ByteArgs :
        Method("Byte", "accept_byte", Eq(c), <<>>, 0, accept_byte(byte_position, c))

AcceptByteWith ==
    \E f \in BytePreds :
        Method("Byte", "accept_byte_with", f, <<>>, 0, accept_byte_with(byte_position, f))

AcceptUntilByteWith ==
    \E f \in BytePreds :
        Method("Byte", "accept_until_byte_with", f, <<>>, 0,
               accept_until_byte_with(byte_position, f))

AcceptUntilByte ==
    \E c \in ByteArgs :
        Method("Byte", "accept_until_byte", Eq(c), <<>>, 0,
               accept_until_byte(byte_position, c))

\* string.rs
CharAccept ==
    \E str \in CharNeedles :
        Method("Char", "accept", NoPred, as_bytes(str), 0, char_accept(byte_position, str))

AcceptCharWith ==
    \E f \in CharPreds :
        Method("Char", "accept_char_with", f, <<>>, 0, accept_char_with(byte_position, f))

AcceptUntilCharWith ==
    \E f \in CharPreds :
        Method("Char", "accept_until_char_with", f, <<>>, 0,
               accept_until_char_with(byte_position, f))

AcceptChar ==
    \E c \in Chars :
        Method("Char", "accept_char", Eq(c), <<>>, 0, accept_char(byte_position, c))

AcceptUntilChar ==
    \E c \in Chars :
        Method("Char", "accept_until_char", Eq(c), <<>>, 0,
               accept_until_char(byte_position, c))

AcceptUntilWhitespace ==
    Method("Char", "accept_until_whitespace", IsWhitespace, <<>>, 0,
           accept_until_whitespace(byte_position))

AcceptWhitespace ==
    Method("Char", "accept_whitespace", IsWhitespace, <<>>, 0,
           accept_whitespace(byte_position))

AcceptZeroOrMoreWhitespace ==
    Method("Char", "accept_zero_or_more_whitespace", NotWhitespace, <<>>, 0,
           accept_zero_or_more_whitespace(byte_position))

AcceptOneOrMoreWhitespace ==
    Method("Char", "accept_one_or_more_whitespace", NotWhitespace, <<>>, 0,
           accept_one_or_more_whitespace(byte_position))

\* any.rs
\* into_byte_oriented made as new_byte_oriented(self.input): the offset is lost
IntoByteOriented_rewinds ==
    /\ boundary_assumption = "Char"
    /\ boundary_assumption' = "Byte"
    /\ byte_position' = 0
    /\ last' = Record("into_byte_oriented", NoPred, <<>>, 0, R(0, "ok", <<>>))
    /\ marks' = {}
    /\ UNCHANGED <<input, textual, backup>>

IntoByteOriented ==
    /\ boundary_assumption = "Char"
    /\ boundary_assumption' = "Byte"
    /\ last' = Record("into_byte_oriented", NoPred, <<>>, 0, R(byte_position, "ok", <<>>))
    /\ marks' = {}
    /\ UNCHANGED <<input, textual, byte_position, backup>>

\* create_backup returning a fresh cursor over the buffer instead of a clone
CreateBackup_fresh ==
    /\ boundary_assumption \in {"Byte", "Char"}
    /\ backup' = [boundary_assumption |-> boundary_assumption, byte_position |-> 0]
    /\ last' = Record("create_backup", NoPred, <<>>, 0, R(byte_position, "ok", <<>>))
    /\ UNCHANGED <<input, textual, byte_position, boundary_assumption, marks>>

CreateBackup ==
    /\ boundary_assumption \in {"Byte", "Char"}
    /\ backup' = [boundary_assumption |-> boundary_assumption,
                  byte_position |-> byte_position]
    /\ last' = Record("create_backup", NoPred, <<>>, 0, R(byte_position, "ok", <<>>))
    /\ UNCHANGED <<input, textual, byte_position, boundary_assumption, marks>>

\* restore_backup(&mut self, other: Self): the caller passes the backup it kept,
\* or a clone of it and keeps it
RestoreBackup ==
    /\ boundary_assumption \in {"Byte", "Char"}
    /\ backup.boundary_assumption = boundary_assumption
    /\ byte_position' = backup.byte_position
    /\ backup' \in {backup, NoBackup}
    /\ last' = Record("restore_backup", NoPred, <<>>, 0,
                      R(backup.byte_position, "ok", <<>>))
    /\ UNCHANGED <<input, textual, boundary_assumption, marks>>

SliceAccepted ==
    /\ boundary_assumption \in {"Byte", "Char"}
    /\ \E cl \in Closures(boundary_assumption) :
        /\ WellTyped(boundary_assumption, backup, cl)
        /\ \E a \in {slice_accepted(boundary_assumption, byte_position, backup, cl)} :
               /\ byte_position' = a.pos
               /\ last' = [Record("slice_accepted", NoPred, <<>>, 0, a)
                              EXCEPT !.closure = cl, !.f_res = a.f_res, !.f_pos = a.f_pos]
    /\ UNCHANGED <<input, textual, boundary_assumption, backup, marks>>

SliceAcceptedOption ==
    /\ boundary_assumption \in {"Byte", "Char"}
    /\ \E cl \in Closures(boundary_assumption) :
        /\ WellTyped(boundary_assumption, backup, cl)
        /\ \E a \in {slice_accepted_option(boundary_assumption, byte_position, backup, cl)} :
               /\ byte_position' = a.pos
               /\ last' = [Record("slice_accepted_option", NoPred, <<>>, 0, a)
                              EXCEPT !.closure = cl, !.f_res = a.f_res, !.f_pos = a.f_pos]
    /\ UNCHANGED <<input, textual, boundary_assumption, backup, marks>>

\* a method taking &self that returns r (n: the number it returns, if one)
Observe(op, n, r) ==
    /\ boundary_assumption \in {"Byte", "Char"}
    /\ last' = Record(op, NoPred, <<>>, n, r)
    /\ UNCHANGED <<input, textual, byte_position, boundary_assumption, backup, marks>>

\* upcoming_byte taking the byte out of the input: the cursor moves past it
UpcomingByte_consuming ==
    /\ boundary_assumption \in {"Byte", "Char"}
    /\ last' = Record("upcoming_byte", NoPred, <<>>, 0,
                      R(byte_position,
                        IF upcoming_byte(byte_position) = <<>> THEN "None" ELSE "Some",
                        upcoming_byte(byte_position)))
    /\ byte_position' = byte_position + Len(upcoming_byte(byte_position))
    /\ UNCHANGED <<input, textual, boundary_assumption, backup, marks>>

UpcomingByte ==
    Observe("upcoming_byte", 0,
            R(byte_position,
              IF upcoming_byte(byte_position) = <<>> THEN "None" ELSE "Some",
              upcoming_byte(byte_position)))

\* upcoming_char: the char it returns is recorded as its UTF-8 bytes
UpcomingChar ==
    /\ boundary_assumption = "Char"
    /\ \E c \in {upcoming_char(byte_position)} :
           Observe("upcoming_char", 0,
                   R(byte_position, c.res,
                     IF c.res = "Some" THEN encode_utf8(c.c) ELSE <<>>))

Done ==
    Observe("done", 0,
            R(byte_position, IF done(byte_position) THEN "true" ELSE "false", <<>>))

BytesLeft == Observe("bytes_left", bytes_left(byte_position), R(byte_position, "ok", <<>>))

BytesAccepted ==
    Observe("bytes_accepted", bytes_accepted(byte_position), R(byte_position, "ok", <<>>))

ByteLeftover ==
    /\ boundary_assumption = "Byte"
    /\ Observe("leftover", 0, byte_leftover(byte_position))

CharLeftover ==
    /\ boundary_assumption = "Char"
    /\ Observe("leftover", 0, char_leftover(byte_position))

\* the calls the caller makes on the clone create_backup gave it
BackupCalls(B) ==
    IF B = "Byte"
    THEN {Op("skip_byte", NoPred, <<>>)}
             \cup {Op("accept_byte_with", f, <<>>) : f \in BytePreds}
             \cup {Op("accept_until_byte_with", f, <<>>) : f \in BytePreds}
    ELSE {Op("accept_char_with", f, <<>>) : f \in CharPreds}
             \cup {Op("accept_until_char_with", f, <<>>) : f \in CharPreds}

\* a &mut self method called on the clone: create_backup returns Self, a cursor
\* of its own over the same buffer
OnBackup ==
    /\ backup # NoBackup
    /\ \E d \in BackupCalls(backup.boundary_assumption) :
       \E r \in {Exec(backup.boundary_assumption, backup.byte_position, NoBackup, d)} :
            /\ backup' = [backup EXCEPT !.byte_position = r.pos]
            /\ last' = [Record(d.op, d.f, d.needle, 0, r)
                           EXCEPT !.cursor = "backup",
                                  !.b = backup.boundary_assumption,
                                  !.pre = backup.byte_position]
    /\ UNCHANGED <<input, textual, byte_position, boundary_assumption, marks>>

\* the caller takes a mark and keeps it
Mark ==
    /\ boundary_assumption \in {"Byte", "Char"}
    /\ Cardinality(marks) < MaxMarks
    /\ marks' = marks \cup {mark(boundary_assumption, byte_position)}
    /\ last' = Record("mark", NoPred, <<>>, 0, R(byte_position, "ok", <<>>))
    /\ UNCHANGED <<input, textual, byte_position, boundary_assumption, backup>>

\* slice(range), the range made of marks taken from the cursor
Slice ==
    /\ boundary_assumption \in {"Byte", "Char"}
    /\ \E shape \in RangeShapes(boundary_assumption) :
       \E a \in IF shape \in WithStart THEN marks ELSE {mark(boundary_assumption, 0)} :
       \E b \in IF shape \in WithEnd THEN marks ELSE {mark(boundary_assumption, 0)} :
       \E range \in {Range(shape, a, b)} :
       \E v \in {slice(range)} :
            last' = [Record("slice", NoPred, <<>>, 0, R(byte_position, v.res, v.view))
                        EXCEPT !.range = range]
    /\ UNCHANGED <<input, textual, byte_position, boundary_assumption, backup, marks>>

Next ==
    \/ NewByteOriented
    \/ NewCharOriented
    \/ SkipByte
    \/ SkipBytes
    \/ SkipToNextUtf8CharBoundary
    \/ IntoCharOriented
    \/ SkipIntoCharOriented
    \/ ByteAccept
    \/ AcceptByte
    \/ AcceptByteWith
    \/ AcceptUntilByteWith
    \/ AcceptUntilByte
    \/ CharAccept
    \/ AcceptCharWith
    \/ AcceptUntilCharWith
    \/ AcceptChar
    \/ AcceptUntilChar
    \/ AcceptUntilWhitespace
    \/ AcceptWhitespace
    \/ AcceptZeroOrMoreWhitespace
    \/ AcceptOneOrMoreWhitespace
    \/ IntoByteOriented
    \/ CreateBackup
    \/ RestoreBackup
    \/ SliceAccepted
    \/ SliceAcceptedOption

Spec == Init /\ [][Next]_vars

\* the cursor in both types, taking marks at the offsets it reaches and slicing
\* with them
NextMarks ==
    \/ NewByteOriented
    \/ NewCharOriented
    \/ SkipBytes
    \/ AcceptCharWith
    \/ Mark
    \/ Slice

SpecMarks == Init /\ [][NextMarks]_vars

\* two cursors over one buffer: the cursor and the clone the caller keeps, each
\* with calls made on it, in any order
NextCursors ==
    \/ NewByteOriented
    \/ NewCharOriented
    \/ SkipBytes
    \/ AcceptByteWith
    \/ AcceptCharWith
    \/ AcceptUntilCharWith
    \/ CreateBackup
    \/ RestoreBackup
    \/ OnBackup

SpecCursors == Init /\ [][NextCursors]_vars

\* the cursor advanced, backed up and restored, with the &self methods called
\* on it on the way
NextObservers ==
    \/ AcceptByte
    \/ AcceptCharWith
    \/ CreateBackup
    \/ RestoreBackup
    \/ Mark
    \/ Slice
    \/ UpcomingByte
    \/ UpcomingChar
    \/ Done
    \/ BytesLeft
    \/ BytesAccepted
    \/ ByteLeftover
    \/ CharLeftover

SpecObservers == Init /\ [][NextObservers]_vars


(***************************************************************************)
(* Properties.                                                             *)
(***************************************************************************)
\* offset i is a codepoint boundary of the buffer s: it is 0, the length, or
\* the byte there is not a UTF-8 continuation byte (10xxxxxx)
IsCodepointBoundary(s, i) ==
    \/ i = 0
    \/ i = Len(s)
    \/ i \in 1..(Len(s) - 1) /\ s[i + 1] \notin 128..191

\* input[a..b]
Span(a, b) == SubSeq(input, a + 1, b)

\* the accept_* methods that report no match as None or false
AcceptOps ==
    {"accept", "accept_byte", "accept_byte_with", "accept_char", "accept_char_with",
     "accept_whitespace", "accept_one_or_more_whitespace"}

\* the accept_* methods that return a view
ViewOps ==
    {"accept", "accept_char", "accept_char_with", "accept_whitespace",
     "accept_one_or_more_whitespace", "accept_zero_or_more_whitespace",
     "accept_until_byte_with", "accept_until_byte", "accept_until_char_with",
     "accept_until_char", "accept_until_whitespace"}

\* C1: a Char-mode cursor's offset is always a codepoint boundary of its buffer
CharOffsetOnBoundary ==
    boundary_assumption = "Char" => IsCodepointBoundary(input, byte_position)

\* a Char-mode cursor strictly inside its buffer, having just accepted a
\* three-byte codepoint
CharOffsetOnBoundaryWitness ==
    /\ boundary_assumption = "Char"
    /\ last.op = "accept_char_with" /\ last.res = "Some"
    /\ byte_position = last.pre + 3
    /\ byte_position < Len(input)

\* C2: in every state 0 <= offset <= len(input)
PositionInBounds == 0 <= byte_position /\ byte_position <= Len(input)

\* a skip_bytes that failed at a cursor in the middle of its buffer
PositionInBoundsWitness ==
    /\ last.op = "skip_bytes" /\ last.res = "panic"
    /\ 0 < byte_position /\ byte_position < Len(input)

\* C3: an accept_* call that reports no match changes neither the offset, nor
\* the buffer, nor the cursor's type
NoMatchLeavesCursor ==
    [][(last'.op \in AcceptOps /\ last'.res \in {"None", "false"})
          => /\ byte_position' = byte_position
             /\ input' = input
             /\ boundary_assumption' = boundary_assumption]_vars

\* accept_one_or_more_whitespace reported no match in front of a codepoint that
\* is not whitespace, after something was consumed
NoMatchLeavesCursorWitness ==
    /\ last.op = "accept_one_or_more_whitespace" /\ last.res = "None"
    /\ 0 < byte_position /\ byte_position < Len(input)

\* C4: a successful accept_* call that returns a view does not move the offset
\* backwards and returns input[old_offset..new_offset]
AcceptedViewIsSpan ==
    (last.op \in ViewOps /\ last.res \in {"Some", "ok"})
        => /\ byte_position >= last.pre
           /\ last.view = Span(last.pre, byte_position)

\* accept_until_char_with, not called at the start of the buffer, consumed a
\* codepoint of several bytes and stopped before the end of the buffer
AcceptedViewIsSpanWitness ==
    /\ last.op = "accept_until_char_with" /\ last.res = "ok"
    /\ Len(last.view) >= 2
    /\ last.pre > 0 /\ byte_position < Len(input)

\* C5: slice_accepted_option(f), f having returned, either returns the span
\* f consumed with the cursor where f left it, or None with the cursor at its
\* offset before the call
BacktrackingLaw ==
    (last.op = "slice_accepted_option" /\ last.f_res \in {"Some", "None"})
        => \/ /\ last.f_res = "Some" /\ last.res = "Some"
              /\ last.view = Span(last.pre, last.f_pos)
              /\ byte_position = last.f_pos
           \/ /\ last.f_res = "None" /\ last.res = "None"
              /\ byte_position = last.pre

\* C6: skip_bytes(n) advances by exactly n when n <= bytes_left, and panics
\* leaving the offset alone otherwise; an empty buffer is done at once
SkipAdvancesOrPanics ==
    /\ last.op \in {"skip_byte", "skip_bytes"}
          => IF last.n <= Len(input) - last.pre
             THEN last.res = "ok" /\ byte_position = last.pre + last.n
             ELSE last.res = "panic" /\ byte_position = last.pre
    /\ last.op = "skip_byte" => last.n = 1
    /\ Len(input) = 0 => done(byte_position)

\* a skip_bytes of one byte more than is left, from the middle of the buffer
SkipAdvancesOrPanicsWitness ==
    /\ last.op = "skip_bytes" /\ last.res = "panic"
    /\ last.pre > 0 /\ last.n = Len(input) - last.pre + 1

\* C7: into_char_oriented succeeds iff the offset is a codepoint boundary, and
\* then yields a Char-mode cursor at the same offset
IntoCharOrientedIffBoundary ==
    last.op = "into_char_oriented"
        => /\ last.res = "Some" <=> IsCodepointBoundary(input, last.pre)
           /\ last.res = "Some"
                 => boundary_assumption = "Char" /\ byte_position = last.pre

\* a conversion that succeeded between two codepoints of the buffer
IntoCharOrientedIffBoundaryWitness ==
    /\ last.op = "into_char_oriented" /\ last.res = "Some"
    /\ 0 < last.pre /\ last.pre < Len(input)
    /\ input[last.pre + 1] >= 128

\* C8: after into_char_oriented failed, the caller still holds the Byte-mode
\* cursor, at the same offset
FailedConversionKeepsCursor ==
    (last.op = "into_char_oriented" /\ last.res = "None")
        => boundary_assumption = "Byte" /\ byte_position = last.pre

\* the width of the codepoint whose first byte is b
WidthOfLead(b) == IF b < 128 THEN 1 ELSE IF b < 224 THEN 2 ELSE IF b < 240 THEN 3 ELSE 4

\* the offset of the first byte of the codepoint that offset i is in
StartOfCodepoint(s, i) ==
    CHOOSE k \in 0..i :
        /\ IsCodepointBoundary(s, k)
        /\ \A j \in (k + 1)..i : ~IsCodepointBoundary(s, j)

\* C9: skip_into_char_oriented does not fail and yields a Char-mode cursor at
\* the smallest codepoint boundary >= the old offset: the old offset when it is
\* one, the end of the current codepoint otherwise, at most 3 bytes further
SkipIntoCharOrientedNextBoundary ==
    last.op = "skip_into_char_oriented"
        => /\ last.res = "ok"
           /\ boundary_assumption = "Char"
           /\ byte_position >= last.pre /\ byte_position <= last.pre + 3
           /\ IsCodepointBoundary(input, byte_position)
           /\ \A k \in last.pre..(byte_position - 1) : ~IsCodepointBoundary(input, k)
           /\ IsCodepointBoundary(input, last.pre) => byte_position = last.pre
           /\ ~IsCodepointBoundary(input, last.pre)
                 => LET k == StartOfCodepoint(input, last.pre)
                    IN  byte_position = k + WidthOfLead(input[k + 1])

\* a skip of three bytes, from the second byte of a four-byte codepoint
SkipIntoCharOrientedNextBoundaryWitness ==
    /\ last.op = "skip_into_char_oriented" /\ last.res = "ok"
    /\ byte_position = last.pre + 3


\* C10: on a Byte-mode cursor, slice succeeds for every range shape over marks
\* a, b taken from it with a.offset <= b.offset, and returns the part of the
\* buffer the range delimits
ByteSliceAnyShape ==
    (last.op = "slice" /\ last.b = "Byte"
     /\ (last.range.shape \in {"a..b", "a..=b"} => last.range.start <= last.range.end))
        => /\ last.res = "ok"
           /\ last.range.shape = "a..b"
                 => last.view = Span(last.range.start, last.range.end)
           /\ last.range.shape = "a.." => last.view = Span(last.range.start, Len(input))
           /\ last.range.shape = "..b" => last.view = Span(0, last.range.end)
           /\ last.range.shape = ".." => last.view = input

\* the slices with an inclusive end, and the range with the same marks and an
\* exclusive end
InclusiveShapes == {"..=b", "a..=b"}

Exclusive(range) ==
    [range EXCEPT !.shape = IF range.shape = "..=b" THEN "..b" ELSE "a..b"]

\* C11: on a Byte-mode cursor, for a mark m with m.offset < len, slice(..=m) is
\* input[0 .. m.offset + 1] and slice(s..=m) is input[s.offset .. m.offset + 1]:
\* one byte more than slice(..m) and slice(s..m), the byte at the mark's offset
ByteInclusiveSlice ==
    (/\ last.op = "slice" /\ last.b = "Byte"
     /\ last.range.shape \in InclusiveShapes
     /\ last.range.start <= last.range.end
     /\ last.range.end < Len(input))
        => /\ last.res = "ok"
           /\ last.view = Span(last.range.start, last.range.end + 1)
           /\ slice(Exclusive(last.range)).res = "ok"
           /\ last.view = slice(Exclusive(last.range)).view
                              \o <<input[last.range.end + 1]>>

\* the offsets a range delimits: a shape without a start begins at 0, one
\* without an end stops at the end of the buffer
RangeStart(range) == range.start

RangeEnd(range) == IF range.shape \in WithEnd THEN range.end ELSE Len(input)

\* C12: a Char-mode cursor is sliced with exclusive-end shapes only, and with
\* marks taken from it in nondecreasing order the slice returns
\* input[a.offset..b.offset], which starts and ends on codepoint boundaries
CharSliceExclusive ==
    (last.op = "slice" /\ last.b = "Char")
        => /\ last.range.shape \in {"a..b", "a..", "..b", ".."}
           /\ RangeStart(last.range) <= RangeEnd(last.range)
                 => /\ last.res = "ok"
                    /\ last.view = Span(RangeStart(last.range), RangeEnd(last.range))
                    /\ IsCodepointBoundary(input, RangeStart(last.range))
                    /\ IsCodepointBoundary(input, RangeEnd(last.range))

\* a Char-mode slice between two marks inside the buffer, with a codepoint of
\* several bytes between them
CharSliceExclusiveWitness ==
    /\ last.op = "slice" /\ last.b = "Char" /\ last.res = "ok"
    /\ last.range.shape = "a..b"
    /\ 0 < last.range.start /\ last.range.end < Len(input)
    /\ last.range.end >= last.range.start + 2

\* the calls that skip unconditionally
SkipOps == {"skip_byte", "skip_bytes"}

\* C13: the only call that fails fatally is an unconditional skip past the end
\* of the buffer, made directly or inside the closure of slice_accepted /
\* slice_accepted_option; every other call returns a result or reports no match
OnlySkipFails ==
    Failed(last)
        => \/ last.op \in SkipOps
           \/ /\ last.op \in {"slice_accepted", "slice_accepted_option"}
              /\ last.f_res \in {"panic", "ub"}

\* C14: slice(..) returns the whole buffer in both modes, whatever the offset,
\* and leaves the offset where it was
FullSliceIsInput ==
    (last.op = "slice" /\ last.range.shape = "..")
        => /\ last.res = "ok"
           /\ last.view = input
           /\ byte_position = last.pre

\* slice(..) on a Byte-mode cursor standing inside a codepoint of the buffer
FullSliceIsInputWitness ==
    /\ last.op = "slice" /\ last.range.shape = ".." /\ last.res = "ok"
    /\ last.b = "Byte" /\ textual
    /\ 0 < byte_position /\ byte_position < Len(input)
    /\ ~IsCodepointBoundary(input, byte_position)

\* leftover() of the cursor the caller holds
Leftover ==
    IF boundary_assumption = "Char" THEN char_leftover(byte_position)
    ELSE byte_leftover(byte_position)

\* C15: with m the mark of the cursor's offset (m = mark(), the cursor not
\* moved since), slice(m..) is the cursor's remaining view leftover(),
\* slice(..m) is the consumed prefix input[0..offset], and the two make up the
\* whole buffer
MarkSliceRoundTrip ==
    /\ (last.op = "slice" /\ last.range.shape = "a.."
        /\ last.range.start = byte_position)
          => /\ last.res = "ok"
             /\ last.view = Leftover.view
             /\ last.view = Span(byte_position, Len(input))
             /\ slice(Range("..b", mark(last.b, 0), mark(last.b, byte_position))).res = "ok"
             /\ slice(Range("..b", mark(last.b, 0), mark(last.b, byte_position))).view
                    \o last.view = input
    /\ (last.op = "slice" /\ last.range.shape = "..b"
        /\ last.range.end = byte_position)
          => /\ last.res = "ok"
             /\ last.view = Span(0, byte_position)

\* a closure that moves the cursor by accept calls only
AcceptsOnly(cl) ==
    \A i \in 1..Len(cl.body) : cl.body[i].op \notin {"skip_byte", "restore_backup"}

\* the views the successful accept calls of a closure return, one after the
\* other, the closure being run from offset pos
RECURSIVE accepted_views(_, _, _, _)
views_after(B, rest, try, r) ==
    IF Failed(r) THEN <<>>
    ELSE IF r.res = "None" THEN (IF try THEN <<>> ELSE accepted_views(B, r.pos, rest, try))
    ELSE r.view \o accepted_views(B, r.pos, rest, try)

accepted_views(B, pos, body, try) ==
    IF body = <<>> THEN <<>>
    ELSE views_after(B, Tail(body), try, Exec(B, pos, NoBackup, Head(body)))

\* C16: slice_accepted(f), f moving the cursor by accept calls, returns f's
\* result and the span input[offset before .. offset after], which is the
\* views f's successful accept calls returned, one after the other
SliceAcceptedSpan ==
    (last.op = "slice_accepted" /\ AcceptsOnly(last.closure))
        => /\ last.f_res \in {"Some", "None"}
           /\ last.res = last.f_res
           /\ last.view = Span(last.pre, byte_position)
           /\ last.view = accepted_views(last.b, last.pre, last.closure.body,
                                         last.closure.try)

\* the accept_until methods, and the predicate each stops on
UntilOps ==
    {"accept_until_byte_with", "accept_until_byte", "accept_until_char_with",
     "accept_until_char", "accept_until_whitespace", "accept_zero_or_more_whitespace"}

StopsOn(call) ==
    CASE call.op = "accept_until_whitespace" -> IsWhitespace
      [] call.op = "accept_zero_or_more_whitespace" -> NotWhitespace
      [] OTHER -> call.f

\* the codepoint of the buffer s that starts at offset k
CodepointAt(s, k) ==
    CHOOSE c \in Chars :
        /\ k + len_utf8(c) <= Len(s)
        /\ SubSeq(s, k + 1, k + len_utf8(c)) = encode_utf8(c)

\* the unit of the cursor's mode at offset k, and the offsets in a..b-1 where
\* a unit starts
UnitAt(B, k) == IF B = "Byte" THEN input[k + 1] ELSE CodepointAt(input, k)

UnitStarts(B, a, b) ==
    {k \in a..(b - 1) : B = "Byte" \/ IsCodepointBoundary(input, k)}

\* C17: the accept_until methods never fail; they leave the offset at the first
\* unit at or after the old offset that satisfies the predicate, or at the end
\* of the buffer when there is none, and return the span before it: no unit of
\* the span satisfies the predicate, the matching unit is not consumed, and the
\* span is empty when the upcoming unit matches or the input is exhausted
UntilStopsAtFirstMatch ==
    last.op \in UntilOps
        => /\ last.res = "ok"
           /\ byte_position >= last.pre
           /\ \A k \in UnitStarts(last.b, last.pre, byte_position) :
                  ~Call(StopsOn(last), UnitAt(last.b, k))
           /\ \/ byte_position = Len(input)
              \/ Call(StopsOn(last), UnitAt(last.b, byte_position))
           /\ last.view = Span(last.pre, byte_position)
           /\ (last.pre = Len(input) \/ Call(StopsOn(last), UnitAt(last.b, last.pre)))
                 => last.view = <<>> /\ byte_position = last.pre

\* accept_until_byte that consumed bytes of the buffer's text and stopped on
\* the byte it was given, before the end of the buffer
UntilStopsAtFirstMatchWitness ==
    /\ last.op = "accept_until_byte" /\ last.res = "ok"
    /\ byte_position >= last.pre + 2
    /\ byte_position < Len(input)
    /\ input[byte_position + 1] = last.f.c

\* C18: accept(needle) succeeds iff the needle is no longer than what is left
\* and input[offset .. offset + len(needle)] is the needle byte for byte; it
\* then advances by len(needle) and returns that part of the buffer; otherwise
\* (too little input left included) it reports no match and does not move; an
\* empty needle is always accepted, with an empty view and no advance
AcceptLiteral ==
    last.op = "accept"
        => /\ last.res \in {"Some", "None"}
           /\ last.res = "Some"
                 <=> /\ Len(last.needle) <= Len(input) - last.pre
                     /\ Span(last.pre, last.pre + Len(last.needle)) = last.needle
           /\ last.res = "Some"
                 => /\ byte_position = last.pre + Len(last.needle)
                    /\ last.view = Span(last.pre, byte_position)
                    /\ last.view = last.needle
           /\ last.res = "None" => byte_position = last.pre
           /\ last.needle = <<>>
                 => last.res = "Some" /\ last.view = <<>> /\ byte_position = last.pre

\* a needle of several bytes accepted by a cursor inside its buffer, the
\* needle being all that was left
AcceptLiteralWitness ==
    /\ last.op = "accept" /\ last.res = "Some"
    /\ last.pre > 0 /\ Len(last.needle) >= 2
    /\ byte_position = Len(input)

\* the methods that accept one unit, and the predicate each accepts on
UnitOps ==
    {"accept_byte_with", "accept_byte", "accept_char_with", "accept_char",
     "accept_whitespace"}

AcceptsOn(call) == IF call.op = "accept_whitespace" THEN IsWhitespace ELSE call.f

\* the length in bytes of the unit at offset k
UnitLen(B, k) == IF B = "Byte" THEN 1 ELSE WidthOfLead(input[k + 1])

\* C19: the one-unit accept methods succeed iff there is a next unit and it
\* satisfies the predicate; they then advance by that unit (1 byte in Byte
\* mode, the 1 to 4 bytes of the codepoint in Char mode) and return it; at the
\* end of the input they report no match whatever the predicate
AcceptOneUnit ==
    last.op \in UnitOps
        => /\ last.res \in (IF last.op = "accept_byte" THEN {"true", "false"}
                            ELSE {"Some", "None"})
           /\ last.res \in {"Some", "true"}
                 <=> /\ last.pre < Len(input)
                     /\ Call(AcceptsOn(last), UnitAt(last.b, last.pre))
           /\ last.res \in {"Some", "true"}
                 => /\ byte_position = last.pre + UnitLen(last.b, last.pre)
                    /\ byte_position \in (last.pre + 1)..(last.pre + 4)
                    /\ last.b = "Byte" => byte_position = last.pre + 1
           /\ last.res = "Some" => last.view = Span(last.pre, byte_position)
           /\ last.res \in {"None", "false"} => byte_position = last.pre
           /\ last.pre = Len(input) => last.res \in {"None", "false"}

\* accept_char took a three-byte codepoint that follows other text
AcceptOneUnitWitness ==
    /\ last.op = "accept_char" /\ last.res = "Some"
    /\ last.pre > 0
    /\ byte_position = last.pre + 3

\* C20: while the caller holds a cursor, done() is true iff the offset is the
\* length of the buffer, bytes_accepted() + bytes_left() is that length, and
\* done() is true iff the peek returns none: upcoming_byte in both modes,
\* upcoming_char in Char mode
DoneIffNothingUpcoming ==
    boundary_assumption \in {"Byte", "Char"}
        => /\ done(byte_position) <=> byte_position = Len(input)
           /\ bytes_accepted(byte_position) + bytes_left(byte_position) = Len(input)
           /\ bytes_left(byte_position) >= 0
           /\ done(byte_position) <=> upcoming_byte(byte_position) = <<>>
           /\ boundary_assumption = "Char"
                 => (done(byte_position) <=> upcoming_char(byte_position).res = "None")
           /\ boundary_assumption = "Char"
                 => upcoming_char(byte_position).res \in {"Some", "None"}

\* a Char-mode cursor in front of the last codepoint of its buffer, one of
\* several bytes: not done, and both peeks return something
DoneIffNothingUpcomingWitness ==
    /\ boundary_assumption = "Char"
    /\ 0 < byte_position /\ byte_position < Len(input)
    /\ byte_position + WidthOfLead(input[byte_position + 1]) = Len(input)
    /\ input[byte_position + 1] >= 128
    /\ ~done(byte_position)
    /\ upcoming_char(byte_position).res = "Some"

\* C21: create_backup captures the cursor's type and offset without moving it,
\* the calls made afterwards on the cursor leave the backup as it was taken, and
\* restore_backup puts the cursor at the backup's offset over the same buffer:
\* the cursor is then in the state it had when the backup was taken, from which
\* every call returns what it returned then
BackupRestores ==
    [][/\ last'.op = "create_backup"
             => /\ backup'.byte_position = byte_position
                /\ backup'.boundary_assumption = boundary_assumption
                /\ byte_position' = byte_position
                /\ input' = input
       /\ last'.op \notin {"create_backup", "restore_backup"} => backup' = backup
       /\ last'.op = "restore_backup"
             => /\ backup.boundary_assumption = boundary_assumption
                /\ byte_position' = backup.byte_position
                /\ boundary_assumption' = boundary_assumption
                /\ input' = input /\ textual' = textual]_vars

\* a backup taken inside the buffer was restored after the cursor had moved on
BackupRestoresWitness ==
    /\ last.op = "restore_backup"
    /\ byte_position > 0
    /\ last.pre > byte_position

\* C22: a call on one of two cursors over a buffer (the cursor, its clone)
\* leaves the other cursor's type and offset alone and returns what that call
\* returns from the cursor's own offset, and no call changes the buffer
CursorsIndependent ==
    [][/\ input' = input /\ textual' = textual
       /\ last'.cursor = "backup"
             => /\ byte_position' = byte_position
                /\ boundary_assumption' = boundary_assumption
                /\ backup'.boundary_assumption = backup.boundary_assumption
                /\ last'.pre = backup.byte_position
       /\ (last'.cursor = "self" /\ last'.op \notin {"create_backup", "restore_backup"})
             => backup' = backup
       /\ (last'.cursor = "self" /\ last'.op = "skip_bytes")
             => /\ last'.pre = byte_position
                /\ byte_position' = IF last'.res = "ok" THEN last'.pre + last'.n
                                    ELSE last'.pre
       /\ (last'.op \in {"accept_byte_with", "accept_char_with"} /\ last'.res = "Some")
             => /\ last'.view = SubSeq(input, last'.pre + 1, last'.pre + Len(last'.view))
                /\ IF last'.cursor = "self"
                   THEN byte_position' = last'.pre + Len(last'.view)
                   ELSE backup'.byte_position = last'.pre + Len(last'.view)]_vars

\* a call on the clone moved it, the cursor standing elsewhere in the buffer
CursorsIndependentWitness ==
    /\ last.cursor = "backup" /\ last.res = "Some"
    /\ backup.byte_position > last.pre
    /\ byte_position > 0
    /\ byte_position # backup.byte_position
    /\ byte_position # last.pre

\* C23: a constructor yields a cursor at offset 0; new_char_oriented (which
\* From::from calls) yields a Char-mode cursor whose leftover() is the whole
\* input, and so does new_byte_oriented followed by into_char_oriented, which
\* always succeeds at offset 0: the same type, the same buffer, the same offset
ConstructorsAgree ==
    /\ last.op \in {"new_byte_oriented", "new_char_oriented"}
          => /\ byte_position = 0
             /\ boundary_assumption
                    = (IF last.op = "new_char_oriented" THEN "Char" ELSE "Byte")
             /\ Leftover.res = "ok" /\ Leftover.view = input
    /\ (last.op = "new_byte_oriented" /\ textual) => is_at_utf8_boundary(byte_position)
    /\ (last.op = "into_char_oriented" /\ last.pre = 0)
          => /\ last.res = "Some"
             /\ boundary_assumption = "Char"
             /\ byte_position = 0
             /\ Leftover.res = "ok" /\ Leftover.view = input

\* into_char_oriented at offset 0 of a buffer that begins with a codepoint of
\* several bytes
ConstructorsAgreeWitness ==
    /\ last.op = "into_char_oriented" /\ last.pre = 0 /\ last.res = "Some"
    /\ Len(input) > 1 /\ input[1] >= 128

\* C24: into_byte_oriented always succeeds and yields a Byte-mode cursor over
\* the same buffer at the same offset, where into_char_oriented's test holds;
\* into_char_oriented called next succeeds and yields a Char-mode cursor at
\* the offset the round trip started from
CharByteCharRoundTrip ==
    [][/\ last'.op = "into_byte_oriented"
             => /\ last'.res = "ok"
                /\ boundary_assumption = "Char" /\ boundary_assumption' = "Byte"
                /\ byte_position' = byte_position
                /\ input' = input /\ textual' = textual
                /\ IsCodepointBoundary(input, byte_position)
                /\ is_at_utf8_boundary(byte_position)
       /\ (last.op = "into_byte_oriented" /\ last'.op = "into_char_oriented")
             => /\ last'.res = "Some"
                /\ boundary_assumption' = "Char"
                /\ byte_position' = last.pre
                /\ input' = input]_vars

\* into_byte_oriented on a cursor between two codepoints of its buffer, the
\* next one of several bytes
CharByteCharRoundTripWitness ==
    /\ last.op = "into_byte_oriented" /\ last.res = "ok"
    /\ boundary_assumption = "Byte"
    /\ 0 < byte_position /\ byte_position < Len(input)
    /\ input[byte_position + 1] >= 128

\* the methods that take &self
ObserverOps ==
    {"upcoming_byte", "upcoming_char", "done", "bytes_left", "bytes_accepted",
     "leftover", "mark", "slice"}

WhitespaceAt(k) == k < Len(input) /\ is_whitespace(CodepointAt(input, k))

\* the span a..b of the buffer is a maximal run of whitespace codepoints
WhitespaceRun(a, b) ==
    /\ a <= b
    /\ \A k \in UnitStarts("Char", a, b) : WhitespaceAt(k)
    /\ ~WhitespaceAt(b)

\* C26: accept_one_or_more_whitespace reports no match, the offset unchanged,
\* iff the input is exhausted or the upcoming codepoint is not whitespace;
\* otherwise it returns a non-empty span of whitespace codepoints that ends at
\* the end of the input or before a codepoint that is not whitespace;
\* accept_zero_or_more_whitespace consumes the same maximal run and always
\* succeeds, with an empty span when there is no whitespace
WhitespaceRuns ==
    /\ last.op = "accept_one_or_more_whitespace"
          => /\ last.res \in {"Some", "None"}
             /\ last.res = "None" <=> ~WhitespaceAt(last.pre)
             /\ last.res = "None" => byte_position = last.pre
             /\ last.res = "Some"
                   => /\ last.view # <<>>
                      /\ last.view = Span(last.pre, byte_position)
                      /\ WhitespaceRun(last.pre, byte_position)
    /\ last.op = "accept_zero_or_more_whitespace"
          => /\ last.res = "ok"
             /\ last.view = Span(last.pre, byte_position)
             /\ WhitespaceRun(last.pre, byte_position)
             /\ last.view = <<>> <=> ~WhitespaceAt(last.pre)

\* accept_one_or_more_whitespace took a run of two whitespace codepoints and
\* stopped before the text that follows
WhitespaceRunsWitness ==
    /\ last.op = "accept_one_or_more_whitespace" /\ last.res = "Some"
    /\ Len(last.view) >= 2 /\ last.view[1] = 32
    /\ byte_position < Len(input)

====
